---- MODULE Spec2Model ----
(***************************************************************************)
(* The ordered concurrent sequence writer of Siril (src/io/seqwriter.c):   *)
(* the pending-write queue, the write worker and its out-of-order buffer,  *)
(* the memory throttle and the multi-output registry.                      *)
(*                                                                         *)
(* Every critical section of pool_mutex is one action.  The worker is one  *)
(* thread whose private steps (scan, pop, process, hook return, exit) are  *)
(* separate actions, so that producers, stop_writer and the throttle calls *)
(* interleave with it at every shared access.  g_cond_wait is modelled     *)
(* without spurious wake-ups: a parked thread leaves the wait only when a  *)
(* g_cond_signal picks it.  A failing malloc in seqwriter_append_write     *)
(* (return 1) changes no state and is not an action.                       *)
(***************************************************************************)
EXTENDS Integers, Sequences, FiniteSets, TLC

VARIABLES
    \* struct seqwriter_data
    failed, bitpix, naxes, frame_count, output_type, writes_queue, write_thread,
    \* com.pref.allow_heterogeneous_fitseq
    allow_heterogeneous_fitseq,
    \* write_worker: its position and locals
    pc, retval, nb_frames_written, current_index, next_images, task,
    \* the throttle and the registry (file statics)
    nb_blocks_active, configured_max_active_blocks, nb_outputs, outputs,
    \* threads calling the throttle, stop_writer and seqwriter_set_max_active_blocks
    prod, stopper, setter,
    \* the index each processing thread has taken and not submitted yet (-1: none)
    claimed,
    \* history: calls of seqwriter_append_write, of the encode hook, of notify_data_freed,
    \* the last raise of the ceiling, and what stop_writer found when it pushed its
    \* signal
    submitted, hookLog, notifyLog, raise, stopLog

writerVars == <<failed, bitpix, naxes, frame_count, output_type, writes_queue, write_thread,
                allow_heterogeneous_fitseq>>
workerVars == <<pc, retval, nb_frames_written, current_index, next_images, task>>
poolVars == <<nb_blocks_active, configured_max_active_blocks, nb_outputs, outputs>>
threadVars == <<prod, stopper, setter, claimed>>
histVars == <<submitted, hookLog, notifyLog, raise, stopLog>>
vars == <<writerVars, workerVars, poolVars, threadVars, histVars>>

----------------------------------------------------------------------------
\* Bounds of the model
MaxSubmit == 3
MaxIndex == 2
MaxFrames == 3
NumProducers == 4
NumSubmitters == 2
MaxSetCalls == 1
MaxDeficit == 1
MaxCeiling == 2
MaxNotify == 3
MaxNotifyIndex == 5
MaxOutputs == 2

\* typedef enum seq_error
SEQ_OK == 0
SEQ_WRITE_ERROR == 1
SEQ_INCOMPLETE == 2

\* A fits image as far as the writer reads it: naxes[0..2] and bitpix.
\* NULL is the absent image of a hole.
NULL == [naxes |-> <<0, 0, 0>>, bitpix |-> 0]
ImgA == [naxes |-> <<1, 1, 1>>, bitpix |-> 16]
ImgW == [naxes |-> <<2, 1, 1>>, bitpix |-> 16]
ImgC == [naxes |-> <<1, 1, 3>>, bitpix |-> 16]
ImgB == [naxes |-> <<1, 1, 1>>, bitpix |-> 32]

\* struct _pending_write, with the serial number of the submission as identity.
\* NoTask is the NULL task pointer, ABORT_TASK the pointer (void *)0x66.
Task(image, index, id) == [image |-> image, index |-> index, id |-> id]
NoTask == Task(NULL, 0, 0)
ABORT_TASK == Task(NULL, 0, 102)

Producers == 1 .. NumProducers
Submitters == 1 .. NumSubmitters
Indices == (0 - 1) .. MaxIndex

\* Sequence identities (the pointer writer->sequence); 0 is the NULL pointer.
NumSeqs == 2
Seqs == 1 .. NumSeqs
WriterSeq == 1

----------------------------------------------------------------------------
\* The throttle: nb_blocks_active, configured_max_active_blocks, pool_cond

\* pool_mutex is free unless a thread is inside the critical section of
\* seqwriter_wait_for_memory, between its test of the counter and its increment
\* (the other critical sections are one action each)
pool_mutex_free == \A p \in Producers : prod[p] \notin {"passed", "passed_woken"}

\* g_cond_signal(&pool_cond): one thread parked in g_cond_wait, if any, is woken
\* and will re-evaluate the loop condition of seqwriter_wait_for_memory.
Signalled(pr) ==
    IF \A p \in Producers : pr[p] # "parked"
    THEN {pr}
    ELSE {[pr EXCEPT ![p] = "woken"] : p \in {q \in Producers : pr[q] = "parked"}}

\* History of the last raise of the ceiling: the threads parked when it began, those
\* of them granted a slot since, whether another thread took a slot since, and
\* whether a release other than the raise's own happened since.
NoRaise == [delta |-> 0, waiting |-> {}, unblocked |-> {}, barged |-> FALSE,
            released |-> FALSE]

after_release(r) == IF r.delta > 0 THEN [r EXCEPT !.released = TRUE] ELSE r

after_grant(r, p, was) ==
    IF r.delta = 0 THEN r
    ELSE IF p \in r.waiting /\ was = "woken" /\ p \notin r.unblocked
    THEN [r EXCEPT !.unblocked = @ \cup {p}]
    ELSE [r EXCEPT !.barged = TRUE]

\* get_output_for_seq: the slot returned (-1: not found)
get_output_for_seq(outs, n, seq) ==
    LET hits == {i \in 0 .. (n - 1) : outs[i].seq = 0 \/ outs[i].seq = seq}
    IN  IF hits = {} THEN 0 - 1
        ELSE CHOOSE i \in hits : \A j \in hits : i <= j

\* get_output_for_seq: the registry after the call (a free slot is taken)
register_output(outs, n, seq) ==
    LET i == get_output_for_seq(outs, n, seq)
    IN  IF i >= 0 /\ outs[i].seq = 0
        THEN [outs EXCEPT ![i] = [seq |-> seq, index |-> 0 - 1]]
        ELSE outs

\* Mutant: a slot that no sequence has taken yet is not looked at
all_outputs_to_index_registered(outs, n, index) ==
    \A i \in 0 .. (n - 1) : outs[i].seq # 0 => outs[i].index >= index

\* Mutant: every output must have passed the index
all_outputs_past_index(outs, n, index) ==
    \A i \in 0 .. (n - 1) : outs[i].seq # 0 /\ outs[i].index > index

\* all_outputs_to_index
all_outputs_to_index(outs, n, index) ==
    \A i \in 0 .. (n - 1) : outs[i].seq # 0 /\ outs[i].index >= index

\* notify_data_freed, lines 329-340: the registry after the notification.
\* With no slot for the sequence (slot -1) the store outputs[-1].index = index
\* lands outside the array and the registry itself is left as it was.
notified_outputs(outs, n, seq, index) ==
    LET i == get_output_for_seq(outs, n, seq)
        reg == register_output(outs, n, seq)
    IN  IF n > 1 /\ i >= 0 THEN [reg EXCEPT ![i].index = index] ELSE reg

\* notify_data_freed: whether the notification reaches the decrement and the signal
notify_releases(outs, n, seq, index) ==
    n > 1 => all_outputs_to_index(notified_outputs(outs, n, seq, index), n, index)

\* notify_data_freed, lines 331-334: whether the message "inconsistent index in
\* memory management" is printed. With no slot for the sequence (slot -1) the
\* index compared is read outside the array: either outcome.
notify_reports(outs, n, seq, index) ==
    LET i == get_output_for_seq(outs, n, seq)
        reg == register_output(outs, n, seq)
    IN  IF n <= 1 THEN {FALSE}
        ELSE IF i >= 0 THEN {reg[i].index + 1 # index}
        ELSE BOOLEAN

\* Mutant: an inconsistent notification is reported and dropped, neither recorded
\* nor counted for the release
notify_data_freed_dropping(seq, index, id) ==
    LET drop == TRUE \in notify_reports(outputs, nb_outputs, seq, index)
        fire == ~drop /\ notify_releases(outputs, nb_outputs, seq, index)
    IN  /\ pool_mutex_free
        /\ outputs' = IF nb_outputs > 1 /\ ~drop
                      THEN notified_outputs(outputs, nb_outputs, seq, index)
                      ELSE outputs
        /\ nb_blocks_active' = IF fire THEN nb_blocks_active - 1 ELSE nb_blocks_active
        /\ prod' \in (IF fire THEN Signalled(prod) ELSE {prod})
        /\ notifyLog' = Append(notifyLog,
                [seq |-> seq, index |-> index, id |-> id, fired |-> fire,
                 slot |-> IF nb_outputs > 1
                          THEN get_output_for_seq(outputs, nb_outputs, seq)
                          ELSE 0,
                 reported |-> drop])
        /\ raise' = IF fire THEN after_release(raise) ELSE raise
        /\ UNCHANGED <<configured_max_active_blocks, nb_outputs>>

\* notify_data_freed(writer, index) as one critical section; id is the task's
\* serial number (0 for a notification of another writer)
notify_data_freed(seq, index, id) ==
    LET fire == notify_releases(outputs, nb_outputs, seq, index)
    IN  /\ pool_mutex_free
        /\ outputs' = IF nb_outputs > 1
                      THEN notified_outputs(outputs, nb_outputs, seq, index)
                      ELSE outputs
        /\ nb_blocks_active' = IF fire THEN nb_blocks_active - 1 ELSE nb_blocks_active
        /\ prod' \in (IF fire THEN Signalled(prod) ELSE {prod})
        /\ \E said \in notify_reports(outputs, nb_outputs, seq, index) :
              notifyLog' = Append(notifyLog,
                [seq |-> seq, index |-> index, id |-> id, fired |-> fire,
                 slot |-> IF nb_outputs > 1
                          THEN get_output_for_seq(outputs, nb_outputs, seq)
                          ELSE 0,
                 reported |-> said])
        /\ raise' = IF fire THEN after_release(raise) ELSE raise
        /\ UNCHANGED <<configured_max_active_blocks, nb_outputs>>

----------------------------------------------------------------------------
\* The writer

\* Mutant: the width and height are compared for FITS cubes only
incompatible_unless_ser(image) ==
    /\ bitpix # 0
    /\ image # NULL
    /\ \/ /\ output_type = "SEQ_FITSEQ"
          /\ ~allow_heterogeneous_fitseq
          /\ <<image.naxes[1], image.naxes[2]>> # <<naxes[1], naxes[2]>>
       \/ image.naxes[3] # naxes[3]
       \/ image.bitpix # bitpix

\* write_worker, lines 110-114: the popped image cannot join the sequence
incompatible(image) ==
    /\ bitpix # 0
    /\ image # NULL
    /\ \/ /\ output_type = "SEQ_FITSEQ"
          /\ ~allow_heterogeneous_fitseq
          /\ <<image.naxes[1], image.naxes[2]>> # <<naxes[1], naxes[2]>>
       \/ /\ output_type = "SEQ_SER"
          /\ <<image.naxes[1], image.naxes[2]>> # <<naxes[1], naxes[2]>>
       \/ image.naxes[3] # naxes[3]
       \/ image.bitpix # bitpix

\* Mutant: the loop goes on when the expected count is reached
loop_continues_past_count(rv, count, written) ==
    rv = SEQ_OK /\ (count <= 0 \/ written <= count)

\* write_worker, lines 172-173: the condition of the do-while loop
loop_continues(rv, count, written) ==
    rv = SEQ_OK /\ (count <= 0 \/ written < count)

\* Mutant: the worker never looks into its waiting list
stored_position_none(list, index) == 0

\* The first task of the waiting list with the wanted index (lines 84-92)
stored_position(list, index) ==
    LET hits == {i \in 1 .. Len(list) : list[i].index = index}
    IN  IF hits = {} THEN 0 ELSE CHOOSE i \in hits : \A j \in hits : i <= j

\* g_list_delete_link
delete_link(list, i) ==
    [j \in 1 .. (Len(list) - 1) |-> IF j < i THEN list[j] ELSE list[j + 1]]

\* Mutant: a popped task one index ahead of the cursor is taken at once
index_verdict_one_ahead(index, current) ==
    IF index >= 0 /\ index # current /\ index # current + 1
    THEN IF index < current THEN "invalid" ELSE "store"
    ELSE "take"

\* Mutant: a popped task is taken whatever its index
index_verdict_any(index, current) == "take"

\* Mutant: a popped task behind the cursor is parked like one ahead of it
index_verdict_stale_parked(index, current) ==
    IF index >= 0 /\ index # current THEN "store" ELSE "take"

\* Mutant: a popped task ahead of the cursor is taken at once instead of waiting
index_verdict_no_parking(index, current) ==
    IF index >= 0 /\ index < current THEN "invalid" ELSE "take"

\* write_worker, lines 122-131: what the worker does with a popped task
\* whose image was accepted
index_verdict(index, current) ==
    IF index >= 0 /\ index # current
    THEN IF index < current THEN "invalid" ELSE "store"
    ELSE "take"

\* Mutant: a submission is never refused
append_refused_never(flag) == FALSE

\* seqwriter_append_write, line 63: the writer has recorded a terminal status
\* other than SEQ_OK
append_refused(flag) == flag # 0

\* Mutant: the push waits for room in a queue that holds one task
queue_push_waits_when_full(queue) == Len(queue) >= 1

\* g_async_queue_push, line 71: the queue is unbounded and the push never waits
queue_push_waits(queue) == FALSE

\* seqwriter_append_write, lines 63-72: refuse for a failed writer, else push.
\* Once stop_writer has released the queue only the refused call is defined.
append_write(image, index) ==
    /\ write_thread \/ append_refused(failed)
    /\ append_refused(failed) \/ ~queue_push_waits(writes_queue)
    /\ Len(submitted) < MaxSubmit
    /\ IF append_refused(failed)
       THEN /\ submitted' = Append(submitted,
                    [index |-> index, image |-> image, ret |-> 0 - 1, stale |-> index >= 0 /\ index < current_index])
            /\ UNCHANGED writes_queue
       ELSE /\ submitted' = Append(submitted,
                    [index |-> index, image |-> image, ret |-> 0, stale |-> index >= 0 /\ index < current_index])
            /\ writes_queue' = Append(writes_queue, Task(image, index, Len(submitted) + 1))
    /\ UNCHANGED <<failed, bitpix, naxes, frame_count, output_type, write_thread,
                   allow_heterogeneous_fitseq>>

\* seqwriter_append_write called by any thread
seqwriter_append_write(image, index) ==
    /\ append_write(image, index)
    /\ UNCHANGED <<workerVars, poolVars, threadVars, hookLog, notifyLog, raise>>
    /\ UNCHANGED stopLog

\* write_worker, lines 82-94: look for current_index in the waiting list
WorkerScan ==
    /\ pc = "scan"
    /\ LET i == stored_position(next_images, current_index)
       IN  IF i > 0
           THEN /\ task' = next_images[i]
                /\ next_images' = delete_link(next_images, i)
                /\ pc' = "process"
           ELSE /\ task' = NoTask
                /\ pc' = "pop"
                /\ UNCHANGED next_images
    /\ UNCHANGED <<retval, nb_frames_written, current_index>>
    /\ UNCHANGED <<writerVars, poolVars, threadVars, histVars>>

\* write_worker, lines 95-133: one turn of the inner loop, from the blocking pop
WorkerPop ==
    /\ pc = "pop"
    /\ writes_queue # <<>>
    /\ LET t == Head(writes_queue)
       IN  /\ writes_queue' = Tail(writes_queue)
           /\ IF t = ABORT_TASK
              THEN /\ retval' = SEQ_INCOMPLETE
                   /\ task' = t
                   /\ pc' = "exit"
                   /\ UNCHANGED <<bitpix, naxes, next_images>>
              ELSE IF incompatible(t.image)
              THEN /\ retval' = SEQ_WRITE_ERROR
                   /\ task' = t
                   /\ pc' = "process"
                   /\ UNCHANGED <<bitpix, naxes, next_images>>
              ELSE /\ IF bitpix = 0 /\ t.image # NULL
                      THEN bitpix' = t.image.bitpix /\ naxes' = t.image.naxes
                      ELSE UNCHANGED <<bitpix, naxes>>
                   /\ LET v == index_verdict(t.index, current_index)
                      IN  /\ retval' = IF v = "invalid" THEN SEQ_WRITE_ERROR ELSE retval
                          /\ task' = IF v = "store" THEN NoTask ELSE t
                          /\ next_images' = IF v = "store"
                                            THEN Append(next_images, t)
                                            ELSE next_images
                          /\ pc' = IF v = "store" THEN "pop" ELSE "process"
    /\ UNCHANGED <<failed, frame_count, output_type, write_thread,
                   allow_heterogeneous_fitseq>>
    /\ UNCHANGED <<nb_frames_written, current_index>>
    /\ UNCHANGED <<poolVars, threadVars, histVars>>

\* Mutant: a task rejected by the inner loop is freed without a notification
WorkerRejectSilent ==
    /\ pc = "process"
    /\ retval = SEQ_WRITE_ERROR
    /\ task' = NoTask
    /\ pc' = "exit"
    /\ UNCHANGED <<retval, nb_frames_written, current_index, next_images>>
    /\ UNCHANGED <<writerVars, poolVars, threadVars, histVars>>

\* write_worker, lines 139-146: a task rejected by the inner loop
WorkerReject ==
    /\ pc = "process"
    /\ retval = SEQ_WRITE_ERROR
    /\ notify_data_freed(WriterSeq, task.index, task.id)
    /\ task' = NoTask
    /\ pc' = "exit"
    /\ UNCHANGED <<retval, nb_frames_written, current_index, next_images>>
    /\ UNCHANGED <<writerVars, stopper, setter, claimed, submitted, hookLog>>
    /\ UNCHANGED stopLog

\* Mutant: a hole leaves the expected count as it was
hole_frame_count_kept(count) == count

\* write_worker, line 152: the expected count after a hole
hole_frame_count(count) == count - 1

\* write_worker, lines 147-155 and the loop condition: a hole is skipped
WorkerSkip ==
    /\ pc = "process"
    /\ retval # SEQ_WRITE_ERROR
    /\ task.image = NULL
    /\ notify_data_freed(WriterSeq, task.index, task.id)
    /\ current_index' = current_index + 1
    /\ frame_count' = hole_frame_count(frame_count)
    /\ task' = NoTask
    /\ pc' = IF loop_continues(retval, hole_frame_count(frame_count), nb_frames_written)
             THEN "scan" ELSE "exit"
    /\ UNCHANGED <<retval, nb_frames_written, next_images>>
    /\ UNCHANGED <<failed, bitpix, naxes, output_type, writes_queue, write_thread,
                   allow_heterogeneous_fitseq>>
    /\ UNCHANGED <<stopper, setter, claimed, submitted, hookLog>>
    /\ UNCHANGED stopLog

\* Mutant: the hook is given the cursor as ordinal
WorkerHookCursor(results) ==
    /\ pc = "process"
    /\ retval # SEQ_WRITE_ERROR
    /\ task.image # NULL
    /\ \E r \in results :
          /\ retval' = r
          /\ hookLog' = Append(hookLog,
                [id |-> task.id, index |-> task.index, ordinal |-> current_index,
                 result |-> r])
    /\ pc' = "hooked"
    /\ UNCHANGED <<nb_frames_written, current_index, next_images, task>>
    /\ UNCHANGED <<writerVars, poolVars, threadVars, submitted, notifyLog, raise>>
    /\ UNCHANGED stopLog

\* write_worker, lines 157-163: the encode hook is called and returns a result
\* of the set results
WorkerHook(results) ==
    /\ pc = "process"
    /\ retval # SEQ_WRITE_ERROR
    /\ task.image # NULL
    /\ \E r \in results :
          /\ retval' = r
          /\ hookLog' = Append(hookLog,
                [id |-> task.id, index |-> task.index, ordinal |-> nb_frames_written,
                 result |-> r])
    /\ pc' = "hooked"
    /\ UNCHANGED <<nb_frames_written, current_index, next_images, task>>
    /\ UNCHANGED <<writerVars, poolVars, threadVars, submitted, notifyLog, raise>>
    /\ UNCHANGED stopLog

\* Mutant: the worker keeps the slot of the image it wrote
WorkerWrittenKeeping ==
    /\ pc = "hooked"
    /\ IF retval # SEQ_WRITE_ERROR
       THEN /\ nb_frames_written' = nb_frames_written + 1
            /\ current_index' = current_index + 1
       ELSE UNCHANGED <<nb_frames_written, current_index>>
    /\ task' = NoTask
    /\ pc' = IF loop_continues(retval, frame_count,
                               IF retval # SEQ_WRITE_ERROR
                               THEN nb_frames_written + 1 ELSE nb_frames_written)
             THEN "scan" ELSE "exit"
    /\ UNCHANGED <<retval, next_images>>
    /\ UNCHANGED <<writerVars, poolVars, threadVars, histVars>>

\* write_worker, lines 165-173: after the hook, and the loop condition
WorkerWritten ==
    /\ pc = "hooked"
    /\ IF retval # SEQ_WRITE_ERROR
       THEN /\ notify_data_freed(WriterSeq, task.index, task.id)
            /\ nb_frames_written' = nb_frames_written + 1
            /\ current_index' = current_index + 1
       ELSE UNCHANGED <<poolVars, prod, notifyLog, raise, nb_frames_written, current_index>>
    /\ task' = NoTask
    /\ pc' = IF loop_continues(retval, frame_count,
                               IF retval # SEQ_WRITE_ERROR
                               THEN nb_frames_written + 1 ELSE nb_frames_written)
             THEN "scan" ELSE "exit"
    /\ UNCHANGED <<retval, next_images>>
    /\ UNCHANGED <<writerVars, stopper, setter, claimed, submitted, hookLog>>
    /\ UNCHANGED stopLog

\* Mutant: a worker stopped by the signal always reports success
final_retval_always_ok(rv, list, count) ==
    IF rv = SEQ_INCOMPLETE THEN SEQ_OK ELSE rv

\* Mutant: with an unknown count the worker reports success whatever is left parked
final_retval_unknown_ok(rv, list, count) ==
    IF rv = SEQ_INCOMPLETE /\ count <= 0 THEN SEQ_OK ELSE rv

\* write_worker, lines 175-193: after the loop
final_retval(rv, list, count) ==
    IF rv = SEQ_INCOMPLETE /\ list = <<>> /\ count <= 0 THEN SEQ_OK ELSE rv

\* Mutant: the expected count is left as it was
final_frame_count_kept(rv, count, written) == count

\* write_worker, lines 178-182: the frame count after the loop
final_frame_count(rv, count, written) ==
    IF rv = SEQ_INCOMPLETE /\ count <= 0 THEN written ELSE count

\* Mutant: a worker stopped by the signal gives back the slots of the tasks left
\* in its waiting list
WorkerExitReleasing ==
    /\ pc = "exit"
    /\ retval' = final_retval(retval, next_images, frame_count)
    /\ frame_count' = final_frame_count(retval, frame_count, nb_frames_written)
    /\ failed' = final_retval(retval, next_images, frame_count)
    /\ pc' = "done"
    /\ nb_blocks_active' = nb_blocks_active - Len(next_images)
    /\ prod' \in (IF next_images = <<>> THEN {prod} ELSE Signalled(prod))
    /\ UNCHANGED <<nb_frames_written, current_index, next_images, task>>
    /\ UNCHANGED <<bitpix, naxes, output_type, writes_queue, write_thread,
                   allow_heterogeneous_fitseq>>
    /\ UNCHANGED <<configured_max_active_blocks, nb_outputs, outputs>>
    /\ UNCHANGED <<stopper, setter, claimed, histVars>>

WorkerExit ==
    /\ pc = "exit"
    /\ retval' = final_retval(retval, next_images, frame_count)
    /\ frame_count' = final_frame_count(retval, frame_count, nb_frames_written)
    /\ failed' = final_retval(retval, next_images, frame_count)
    /\ pc' = "done"
    /\ UNCHANGED <<nb_frames_written, current_index, next_images, task>>
    /\ UNCHANGED <<bitpix, naxes, output_type, writes_queue, write_thread,
                   allow_heterogeneous_fitseq>>
    /\ UNCHANGED <<poolVars, threadVars, histVars>>

\* Mutant: stop_writer pushes no signal
queue_after_stop_nothing(queue, aborting) == queue

\* Mutant: the signal of a graceful stop goes to the front of the queue
queue_after_stop_front(queue, aborting) == <<ABORT_TASK>> \o queue

\* Mutant: the signal of an aborting stop goes to the back of the queue
queue_after_stop_back(queue, aborting) == Append(queue, ABORT_TASK)

\* stop_writer, lines 219-223: g_async_queue_push_front or g_async_queue_push
queue_after_stop(queue, aborting) ==
    IF aborting THEN <<ABORT_TASK>> \o queue ELSE Append(queue, ABORT_TASK)

\* History of stop_writer: the number of submissions made when the signal was pushed
\* and, for an aborting stop, the serial numbers of the tasks then parked in the
\* waiting list and of the tasks then in the queue
NoStop == [submitted |-> 0, parked |-> {}, queued |-> {}]

\* stop_writer, lines 218-223: the termination signal is pushed
StopPush(aborting) ==
    /\ stopper = "none"
    /\ write_thread
    /\ writes_queue' = queue_after_stop(writes_queue, aborting)
    /\ stopper' = IF aborting THEN "abort" ELSE "graceful"
    /\ stopLog' = IF aborting
                   THEN [submitted |-> Len(submitted),
                         parked |-> {next_images[i].id : i \in 1 .. Len(next_images)},
                         queued |-> {writes_queue[i].id : i \in 1 .. Len(writes_queue)}]
                   ELSE [NoStop EXCEPT !.submitted = Len(submitted)]
    /\ UNCHANGED <<failed, bitpix, naxes, frame_count, output_type, write_thread,
                   allow_heterogeneous_fitseq>>
    /\ UNCHANGED <<workerVars, poolVars, prod, setter, claimed>>
    /\ UNCHANGED <<submitted, hookLog, notifyLog, raise>>

\* stop_writer, lines 225-228: the worker is joined and the queue released
StopJoin ==
    /\ stopper \in {"abort", "graceful"}
    /\ pc = "done"
    /\ write_thread' = FALSE
    /\ writes_queue' = <<>>
    /\ stopper' = "joined"
    /\ UNCHANGED <<failed, bitpix, naxes, frame_count, output_type,
                   allow_heterogeneous_fitseq>>
    /\ UNCHANGED <<workerVars, poolVars, prod, setter, claimed, histVars>>

----------------------------------------------------------------------------
\* The throttle calls of the processing threads

\* seqwriter_wait_for_memory, lines 280-283: no limit, or go for the mutex
WaitEnter(p) ==
    /\ prod[p] = "idle"
    /\ prod' = [prod EXCEPT ![p] = IF configured_max_active_blocks <= 0
                                   THEN "unlimited" ELSE "lock"]
    /\ UNCHANGED <<writerVars, workerVars, poolVars, stopper, setter, claimed, histVars>>

\* Mutant: a thread waits only when the counter is above the ceiling
must_wait_above(active, max) == active > max

\* seqwriter_wait_for_memory, line 284: the condition of the wait loop
must_wait(active, max) == active >= max

\* seqwriter_wait_for_memory, lines 284-290: under the mutex, park or take a slot
WaitCheck(p) ==
    /\ prod[p] \in {"lock", "woken"}
    /\ pool_mutex_free
    /\ IF must_wait(nb_blocks_active, configured_max_active_blocks)
       THEN /\ prod' = [prod EXCEPT ![p] = "parked"]
            /\ UNCHANGED <<nb_blocks_active, raise>>
       ELSE /\ prod' = [prod EXCEPT ![p] = "granted"]
            /\ nb_blocks_active' = nb_blocks_active + 1
            /\ raise' = after_grant(raise, p, prod[p])
    /\ UNCHANGED <<configured_max_active_blocks, nb_outputs, outputs>>
    /\ UNCHANGED <<writerVars, workerVars, stopper, setter, claimed, submitted, hookLog, notifyLog>>
    /\ UNCHANGED stopLog

\* seqwriter_wait_for_memory, lines 283-286, as a step of its own: the mutex is
\* taken and the condition of the loop evaluated; the thread parks, which releases
\* the mutex, or goes on with the mutex held
WaitTest(p) ==
    /\ prod[p] \in {"lock", "woken"}
    /\ pool_mutex_free
    /\ prod' = [prod EXCEPT ![p] =
                    IF must_wait(nb_blocks_active, configured_max_active_blocks)
                    THEN "parked"
                    ELSE IF prod[p] = "woken" THEN "passed_woken" ELSE "passed"]
    /\ UNCHANGED <<writerVars, workerVars, poolVars, stopper, setter, claimed, histVars>>

\* seqwriter_wait_for_memory, lines 288-290, as a step of its own: the increment
\* and the release of the mutex
WaitTake(p) ==
    /\ prod[p] \in {"passed", "passed_woken"}
    /\ prod' = [prod EXCEPT ![p] = "granted"]
    /\ nb_blocks_active' = nb_blocks_active + 1
    /\ raise' = after_grant(raise, p, IF prod[p] = "passed_woken" THEN "woken" ELSE "lock")
    /\ UNCHANGED <<configured_max_active_blocks, nb_outputs, outputs>>
    /\ UNCHANGED <<writerVars, workerVars, stopper, setter, claimed, submitted, hookLog, notifyLog>>
    /\ UNCHANGED stopLog

\* seqwriter_release_memory: the counter and the condition
release_memory(pr) ==
    /\ pool_mutex_free
    /\ nb_blocks_active' = nb_blocks_active - 1
    /\ prod' \in Signalled(pr)

\* seqwriter_release_memory called by a thread that returned from
\* seqwriter_wait_for_memory and gives its slot back itself. Without a ceiling
\* nothing was counted for the thread and the counter goes down all the same: the
\* model follows it down to -MaxDeficit.
ReleaseMemory(p) ==
    /\ prod[p] \in {"granted", "unlimited"}
    /\ prod[p] = "unlimited" => nb_blocks_active > 0 - MaxDeficit
    /\ release_memory([prod EXCEPT ![p] = "idle"])
    /\ raise' = after_release(raise)
    /\ UNCHANGED <<configured_max_active_blocks, nb_outputs, outputs>>
    /\ UNCHANGED <<writerVars, workerVars, stopper, setter, claimed, submitted, hookLog, notifyLog>>
    /\ UNCHANGED stopLog

\* seqwriter_append_write called by a thread that returned from
\* seqwriter_wait_for_memory: on success its slot goes with the image
ProducerSubmit(p, image, index) ==
    /\ prod[p] \in {"granted", "unlimited"}
    /\ append_write(image, index)
    /\ prod' = IF append_refused(failed) THEN prod ELSE [prod EXCEPT ![p] = "idle"]
    /\ UNCHANGED <<workerVars, poolVars, stopper, setter, claimed, hookLog, notifyLog, raise>>
    /\ UNCHANGED stopLog

\* The next index no processing thread has taken yet, when the threads take the
\* indices in ascending order and submit each index they take
NextUnclaimed == Len(submitted) + Cardinality({p \in Producers : claimed[p] >= 0})

\* A processing thread that holds a slot takes the next index
ClaimReserved(p) ==
    /\ prod[p] = "granted"
    /\ claimed[p] < 0
    /\ NextUnclaimed < frame_count
    /\ claimed' = [claimed EXCEPT ![p] = NextUnclaimed]
    /\ UNCHANGED <<writerVars, workerVars, poolVars, prod, stopper, setter, histVars>>

\* A processing thread that holds no slot takes the next index
ClaimFirst(p) ==
    /\ prod[p] = "idle"
    /\ claimed[p] < 0
    /\ NextUnclaimed < frame_count
    /\ claimed' = [claimed EXCEPT ![p] = NextUnclaimed]
    /\ UNCHANGED <<writerVars, workerVars, poolVars, prod, stopper, setter, histVars>>

\* seqwriter_append_write called by a processing thread for the index it took,
\* with the image it made in its slot
SubmitClaimed(p) ==
    /\ prod[p] = "granted"
    /\ claimed[p] >= 0
    /\ append_write(ImgA, claimed[p])
    /\ prod' = IF append_refused(failed) THEN prod ELSE [prod EXCEPT ![p] = "idle"]
    /\ claimed' = [claimed EXCEPT ![p] = 0 - 1]
    /\ UNCHANGED <<workerVars, poolVars, stopper, setter, hookLog, notifyLog, raise>>
    /\ UNCHANGED stopLog

\* Mutant: the raise releases one slot more than the difference
raise_deficit_plus_one(max, configured) == max - configured + 1

\* seqwriter_set_max_active_blocks, line 269: the releases owed by a raise
raise_deficit(max, configured) == max - configured

\* seqwriter_set_max_active_blocks, lines 268-270: a raise of a positive ceiling
\* stores the new ceiling and owes the difference in releases
SetMaxBegin(max) ==
    /\ setter.pc = "idle"
    /\ setter.calls < MaxSetCalls
    /\ IF configured_max_active_blocks > 0 /\ max > configured_max_active_blocks
       THEN /\ setter' = [pc |-> "release", max |-> max,
                          more |-> raise_deficit(max, configured_max_active_blocks),
                          calls |-> setter.calls + 1]
            /\ configured_max_active_blocks' = max
            /\ raise' = [NoRaise EXCEPT
                            !.delta = max - configured_max_active_blocks,
                            !.waiting = {p \in Producers : prod[p] = "parked"}]
       ELSE /\ setter' = [pc |-> "store", max |-> max, more |-> 0,
                          calls |-> setter.calls + 1]
            /\ raise' = NoRaise
            /\ UNCHANGED configured_max_active_blocks
    /\ UNCHANGED <<nb_blocks_active, nb_outputs, outputs>>
    /\ UNCHANGED <<writerVars, workerVars, prod, stopper, claimed, submitted, hookLog, notifyLog>>
    /\ UNCHANGED stopLog

\* seqwriter_set_max_active_blocks, lines 272-273: one seqwriter_release_memory
SetMaxRelease ==
    /\ setter.pc = "release"
    /\ release_memory(prod)
    /\ setter' = [setter EXCEPT !.more = @ - 1,
                                !.pc = IF setter.more > 1 THEN "release" ELSE "store"]
    /\ UNCHANGED <<configured_max_active_blocks, nb_outputs, outputs>>
    /\ UNCHANGED <<writerVars, workerVars, stopper, claimed, histVars>>

\* seqwriter_set_max_active_blocks, line 275
SetMaxStore ==
    /\ setter.pc = "store"
    /\ configured_max_active_blocks' = setter.max
    /\ setter' = [setter EXCEPT !.pc = "reset"]
    /\ UNCHANGED <<nb_blocks_active, nb_outputs, outputs>>
    /\ UNCHANGED <<writerVars, workerVars, prod, stopper, claimed, histVars>>

\* seqwriter_set_max_active_blocks, line 276
SetMaxReset ==
    /\ setter.pc = "reset"
    /\ nb_blocks_active' = 0
    /\ setter' = [setter EXCEPT !.pc = "idle"]
    /\ UNCHANGED <<configured_max_active_blocks, nb_outputs, outputs>>
    /\ UNCHANGED <<writerVars, workerVars, prod, stopper, claimed, histVars>>

\* seqwriter_set_number_of_outputs
seqwriter_set_number_of_outputs(number_of_outputs) ==
    /\ nb_outputs' = number_of_outputs
    /\ outputs' = IF number_of_outputs > 1
                  THEN [i \in 0 .. (number_of_outputs - 1) |-> [seq |-> 0, index |-> 0]]
                  ELSE <<>>
    /\ UNCHANGED <<nb_blocks_active, configured_max_active_blocks>>
    /\ UNCHANGED <<writerVars, workerVars, threadVars, histVars>>

\* notify_data_freed called by the worker of the writer of sequence seq
NotifyOutput(seq, index) ==
    /\ Len(notifyLog) < MaxNotify
    /\ notify_data_freed(seq, index, 0)
    /\ UNCHANGED <<writerVars, workerVars, stopper, setter, claimed, submitted, hookLog>>
    /\ UNCHANGED stopLog

----------------------------------------------------------------------------
\* Specifications

\* The file statics before any call, and the writer after start_writer(count)
\* for a sequence of the given container type
Started(counts, modes, ceilings) ==
    /\ failed = 0
    /\ bitpix = 0
    /\ naxes = <<0, 0, 0>>
    /\ frame_count \in counts
    /\ \E m \in modes : output_type = m[1] /\ allow_heterogeneous_fitseq = m[2]
    /\ writes_queue = <<>>
    /\ write_thread = TRUE
    /\ pc = "scan"
    /\ retval = SEQ_OK
    /\ nb_frames_written = 0
    /\ current_index = 0
    /\ next_images = <<>>
    /\ task = NoTask
    /\ nb_blocks_active = 0
    /\ configured_max_active_blocks \in ceilings
    /\ nb_outputs = 1
    /\ outputs = <<>>
    /\ prod = [p \in Producers |-> "idle"]
    /\ stopper = "none"
    /\ setter = [pc |-> "idle", max |-> 0, more |-> 0, calls |-> 0]
    /\ claimed = [p \in Producers |-> 0 - 1]
    /\ submitted = <<>>
    /\ hookLog = <<>>
    /\ notifyLog = <<>>
    /\ raise = NoRaise
    /\ stopLog = NoStop

\* write_worker with an encode hook returning a result of the set results
Worker(results) ==
    \/ WorkerScan
    \/ WorkerPop
    \/ WorkerReject
    \/ WorkerSkip
    \/ WorkerHook(results)
    \/ WorkerWritten
    \/ WorkerExit

\* stop_writer, graceful or aborting
StopWriter ==
    \/ StopPush(TRUE)
    \/ StopPush(FALSE)
    \/ StopJoin

\* One writer, threads submitting any image for any index, a hook that may fail
Init == Started({0, MaxFrames}, {<<"SEQ_SER", FALSE>>}, {0})

Next ==
    \/ \E image \in {NULL, ImgA, ImgW}, index \in Indices :
            seqwriter_append_write(image, index)
    \/ Worker({SEQ_OK, SEQ_WRITE_ERROR})
    \/ StopWriter

Spec == Init /\ [][Next]_vars

\* One writer with a known frame count, threads that submit every index of the
\* sequence once, in any order, with an image or a hole, a hook that never fails,
\* no termination signal; the worker thread keeps being scheduled
SubmitOnce ==
    \E index \in 0 .. (MaxFrames - 1), image \in {NULL, ImgA, ImgW} :
        /\ index < frame_count
        /\ \A i \in 1 .. Len(submitted) : submitted[i].index # index
        /\ seqwriter_append_write(image, index)

InitComplete ==
    Started(1 .. MaxFrames,
            {<<"SEQ_SER", FALSE>>, <<"SEQ_FITSEQ", FALSE>>, <<"SEQ_FITSEQ", TRUE>>}, {0})

NextComplete ==
    \/ SubmitOnce
    \/ Worker({SEQ_OK})

SpecComplete ==
    InitComplete /\ [][NextComplete]_vars /\ WF_vars(Worker({SEQ_OK}))

\* One writer in single-output mode behind a ceiling configured before the
\* processing threads start: each thread takes a slot, then either submits an image
\* or a hole (the slot goes with it and the worker gives it back) or gives the slot
\* back itself
InitThrottle == Started({0, MaxFrames}, {<<"SEQ_SER", FALSE>>}, 1 .. MaxCeiling)

NextThrottle ==
    \/ \E p \in Submitters : WaitEnter(p)
    \/ \E p \in Submitters : WaitCheck(p)
    \/ \E p \in Submitters : ReleaseMemory(p)
    \/ \E p \in Submitters, image \in {NULL, ImgA}, index \in 0 .. MaxIndex :
            ProducerSubmit(p, image, index)
    \/ Worker({SEQ_OK, SEQ_WRITE_ERROR})
    \/ StopWriter

SpecThrottle == InitThrottle /\ [][NextThrottle]_vars

\* Several output sequences fed by one pool: the number of outputs is declared
\* before the writers start notifying, then the writer of any sequence notifies any
\* index, while two processing threads wait for slots behind a ceiling of one
Waiters == {1, 2}
NotifyIndices == {0, 1, MaxNotifyIndex - 2, MaxNotifyIndex}

ConfigureOutputs(number_of_outputs) ==
    /\ notifyLog = <<>>
    /\ seqwriter_set_number_of_outputs(number_of_outputs)

InitOutputs == Started({0}, {<<"SEQ_FITSEQ", FALSE>>}, {1})

NextOutputs ==
    \/ \E k \in 1 .. MaxOutputs : ConfigureOutputs(k)
    \/ \E seq \in Seqs, index \in NotifyIndices : NotifyOutput(seq, index)
    \/ \E p \in Waiters : WaitEnter(p)
    \/ \E p \in Waiters : WaitCheck(p)

SpecOutputs == InitOutputs /\ [][NextOutputs]_vars

\* The throttle alone, first configured with a ceiling of one: processing threads
\* take slots and give them back while a thread reconfigures the ceiling
InitRaise == Started({0}, {<<"SEQ_SER", FALSE>>}, {1})

NextRaise ==
    \/ \E p \in Producers : WaitEnter(p)
    \/ \E p \in Producers : WaitCheck(p)
    \/ \E p \in Producers : ReleaseMemory(p)
    \/ \E max \in 1 .. (MaxCeiling + 1) : SetMaxBegin(max)
    \/ SetMaxRelease
    \/ SetMaxStore
    \/ SetMaxReset

SpecRaise == InitRaise /\ [][NextRaise]_vars

\* One writer of any container type, with the heterogeneous switch on or off,
\* receiving the indices in order, each with a hole or an image of any properties
InitCompat ==
    Started({0}, {"SEQ_SER", "SEQ_FITSEQ"} \X BOOLEAN, {0})

NextCompat ==
    \/ \E image \in {NULL, ImgA, ImgW, ImgC, ImgB} :
            seqwriter_append_write(image, Len(submitted))
    \/ Worker({SEQ_OK})

SpecCompat == InitCompat /\ [][NextCompat]_vars

\* One writer of any container type, with the heterogeneous switch on or off,
\* receiving the indices in order or the index 0 again, each with a hole or an
\* image of any properties
InitMixed ==
    Started({0}, {"SEQ_SER", "SEQ_FITSEQ"} \X BOOLEAN, {0})

NextMixed ==
    \/ \E image \in {NULL, ImgA, ImgW, ImgC, ImgB}, index \in {0, Len(submitted)} :
            seqwriter_append_write(image, index)
    \/ Worker({SEQ_OK})

SpecMixed == InitMixed /\ [][NextMixed]_vars

\* One writer of two frames in a pool shared with the writer of another sequence:
\* the number of outputs is declared before any notification, the writer receives
\* images and holes for the next index, for the index 0 or for a negative index,
\* and the worker of the other writer notifies its first indices
InitShared == Started({2}, {<<"SEQ_FITSEQ", FALSE>>}, {0})

NextShared ==
    \/ \E k \in 1 .. MaxOutputs : ConfigureOutputs(k)
    \/ \E image \in {NULL, ImgA}, index \in {0 - 1, 0, Len(submitted)} :
            seqwriter_append_write(image, index)
    \/ Worker({SEQ_OK})
    \/ \E index \in {0, 1} : NotifyOutput(WriterSeq + 1, index)

SpecShared == InitShared /\ [][NextShared]_vars

\* One writer of MaxFrames frames behind a fixed ceiling, a hook that never fails,
\* and processing threads that reserve a slot, then take the next index, then submit
\* an image for it; a thread that finds no index left gives its slot back. Every
\* thread keeps being scheduled.
Reserving(p) ==
    \/ claimed[p] < 0 /\ NextUnclaimed < frame_count /\ WaitEnter(p)
    \/ WaitCheck(p)
    \/ ClaimReserved(p)
    \/ SubmitClaimed(p)
    \/ claimed[p] < 0 /\ NextUnclaimed >= frame_count /\ ReleaseMemory(p)

InitReserve == Started({MaxFrames}, {<<"SEQ_SER", FALSE>>}, 1 .. MaxCeiling)

\* write_worker on images that all have the properties of the first and come
\* with indices never below the cursor: nothing to skip, nothing to reject
WorkerOfImages ==
    \/ WorkerScan
    \/ WorkerPop
    \/ WorkerHook({SEQ_OK})
    \/ WorkerWritten
    \/ WorkerExit

NextReserve ==
    \/ \E p \in Waiters : Reserving(p)
    \/ WorkerOfImages

SpecReserve ==
    /\ InitReserve
    /\ [][NextReserve]_vars
    /\ WF_vars(WorkerOfImages)
    /\ \A p \in Waiters : WF_vars(Reserving(p))

\* One writer of MaxFrames frames behind a ceiling of at least the number of
\* processing threads, a hook that never fails, and threads that take the next
\* index first, then wait for a slot, then submit an image for the index
IndexFirst(p) ==
    \/ ClaimFirst(p)
    \/ claimed[p] >= 0 /\ WaitEnter(p)
    \/ WaitCheck(p)
    \/ SubmitClaimed(p)

InitIndexFirst ==
    Started({MaxFrames}, {<<"SEQ_SER", FALSE>>},
            {c \in 1 .. MaxCeiling : c >= Cardinality(Waiters)})

NextIndexFirst ==
    \/ \E p \in Waiters : IndexFirst(p)
    \/ WorkerOfImages

SpecIndexFirst == InitIndexFirst /\ [][NextIndexFirst]_vars

\* As many writers as outputs declared, each notifying the indices 0 .. MaxIndex
\* once, in ascending order, in any interleaving with the others, while a
\* processing thread waits for slots behind a ceiling of one
NotifiedBy(seq) == Cardinality({j \in 1 .. Len(notifyLog) : notifyLog[j].seq = seq})

NotifyNext(seq) ==
    /\ nb_outputs > 1
    /\ seq <= nb_outputs
    /\ NotifiedBy(seq) <= MaxIndex
    /\ notify_data_freed(seq, NotifiedBy(seq), 0)
    /\ UNCHANGED <<writerVars, workerVars, stopper, setter, claimed, submitted, hookLog>>
    /\ UNCHANGED stopLog

InitAscending == Started({0}, {<<"SEQ_FITSEQ", FALSE>>}, {1})

NextAscending ==
    \/ \E k \in 2 .. MaxOutputs : ConfigureOutputs(k)
    \/ \E seq \in 1 .. MaxOutputs : NotifyNext(seq)
    \/ WaitEnter(1)
    \/ WaitCheck(1)

SpecAscending == InitAscending /\ [][NextAscending]_vars

\* The registry over several runs: the number of outputs is declared at any time,
\* and the writers of NumSeqs + 1 sequences, those of a first run and the new
\* sequence of a later one, notify their first indices
InitRegistry == Started({0}, {<<"SEQ_FITSEQ", FALSE>>}, {1})

NextRegistry ==
    \/ \E k \in 1 .. MaxOutputs : seqwriter_set_number_of_outputs(k)
    \/ \E seq \in 1 .. (NumSeqs + 1), index \in {0, 1} : NotifyOutput(seq, index)

SpecRegistry == InitRegistry /\ [][NextRegistry]_vars

\* One writer with a known or unknown frame count, threads that submit an image of
\* any width or a hole for indices up to MaxIndex + 1, each index at most once and possibly
\* leaving gaps, a hook that may fail, and a thread that stops the writer, gracefully
\* or aborting; the worker and the joining stop_writer keep being scheduled
SubmitDistinct ==
    \E index \in 0 .. (MaxIndex + 1), image \in {NULL, ImgA, ImgW} :
        /\ \A i \in 1 .. Len(submitted) : submitted[i].index # index
        /\ seqwriter_append_write(image, index)

InitStop == Started({0, MaxFrames}, {<<"SEQ_SER", FALSE>>}, {0})

NextStop ==
    \/ SubmitDistinct
    \/ Worker({SEQ_OK, SEQ_WRITE_ERROR})
    \/ StopWriter

SpecStop ==
    /\ InitStop
    /\ [][NextStop]_vars
    /\ WF_vars(Worker({SEQ_OK, SEQ_WRITE_ERROR}))
    /\ WF_vars(StopJoin)

\* The throttle and the registry with the critical section of
\* seqwriter_wait_for_memory in two steps: two processing threads take slots and
\* give them back while a thread reconfigures the ceiling and the number of outputs
InitLock == Started({0}, {<<"SEQ_SER", FALSE>>}, {1})

NextLock ==
    \/ \E p \in Waiters : WaitEnter(p)
    \/ \E p \in Waiters : WaitTest(p)
    \/ \E p \in Waiters : WaitTake(p)
    \/ \E p \in Waiters : ReleaseMemory(p)
    \/ \E max \in 0 .. MaxCeiling : SetMaxBegin(max)
    \/ SetMaxRelease
    \/ SetMaxStore
    \/ SetMaxReset
    \/ \E k \in 1 .. MaxOutputs : ConfigureOutputs(k)

SpecLock == InitLock /\ [][NextLock]_vars

----------------------------------------------------------------------------
\* Claims

\* The indices submitted so far are distinct indices of the sequence
SubmittedOnce ==
    \A i \in 1 .. Len(submitted) :
        /\ submitted[i].index >= 0
        /\ \A j \in 1 .. Len(submitted) : i # j => submitted[i].index # submitted[j].index

\* C1 (ordering): when every index is submitted at most once, in whatever order the
\* tasks reach the queue, the indices of the tasks passed to the encode hook are
\* strictly ascending.
C1_Ordering ==
    SubmittedOnce =>
        \A i \in 1 .. Len(hookLog) : \A j \in 1 .. Len(hookLog) :
            i < j => hookLog[i].index < hookLog[j].index

\* C1 witness: index 1 reached the queue before index 0 and both were encoded
C1_Witness ==
    /\ SubmittedOnce
    /\ Len(submitted) >= 2 /\ submitted[1].index = 1 /\ submitted[2].index = 0
    /\ Len(hookLog) = 2
    /\ hookLog[1].id = 2 /\ hookLog[2].id = 1

\* The worker has ended
WorkerDone == pc = "done"

\* Every index of the expected count has been submitted
AllSubmitted ==
    \A index \in 0 .. (frame_count - 1) :
        \E i \in 1 .. Len(submitted) : submitted[i].index = index /\ submitted[i].ret = 0

\* Every submission so far carried an image of the same properties
AllValid == \A i \in 1 .. Len(submitted) : submitted[i].image = ImgA

\* C2 (completeness): with a known count N, every index submitted once with a
\* valid image of the same properties and a hook that never fails, the worker
\* ends by itself, with SEQ_OK and N frames written.
C2_Completeness ==
    /\ [](WorkerDone /\ AllValid =>
            failed = SEQ_OK /\ nb_frames_written = frame_count
                            /\ Len(hookLog) = frame_count)
    /\ ((AllSubmitted /\ AllValid) ~> WorkerDone)

\* C2 witness: the worker has ended after writing an expected count of MaxFrames
C2_Witness ==
    /\ WorkerDone
    /\ AllSubmitted /\ AllValid
    /\ frame_count = MaxFrames
    /\ nb_frames_written = MaxFrames
    /\ failed = SEQ_OK

\* The submissions accepted by seqwriter_append_write
NbAccepted == Cardinality({i \in 1 .. Len(submitted) : submitted[i].ret = 0})

\* The notifications that reached the decrement of the counter
NbFired == Cardinality({i \in 1 .. Len(notifyLog) : notifyLog[i].fired})

\* Reservations granted by seqwriter_wait_for_memory and not yet released: those
\* still held by a thread, and those that went to the writer with a task and whose
\* task the worker has not yet notified as freed
Outstanding ==
    Cardinality({p \in Producers : prod[p] = "granted"})
    + NbAccepted - NbFired

\* C3 (throttle bound): with a ceiling M > 0 configured before the threads start
\* and every slot released once, at most M reservations are granted and not yet
\* released.
C3_ThrottleBound ==
    Outstanding <= configured_max_active_blocks

\* C3 witness: the ceiling is reached with a slot held by a thread and one gone to
\* the writer, a thread is parked, and the worker has given slots back
C3_Witness ==
    /\ Outstanding = configured_max_active_blocks
    /\ configured_max_active_blocks = MaxCeiling
    /\ \E p \in Producers : prod[p] = "parked"
    /\ \E p \in Producers : prod[p] = "granted"
    /\ NbFired > 0
    /\ writes_queue # <<>>

\* The task on which the worker stopped was the termination signal
ExitedOnAbort == WorkerDone /\ task = ABORT_TASK

\* The worker has notified the task of serial number id as freed, and the
\* notification reached the decrement of the counter
Released(id) ==
    \E j \in 1 .. Len(notifyLog) : notifyLog[j].id = id /\ notifyLog[j].fired

\* C4 (abort releases abandoned reservations): when the worker exits on the
\* termination signal with tasks still parked in the waiting list, the reservation
\* of each parked task has been released.
C4_AbortReleasesAbandoned ==
    ExitedOnAbort =>
        \A i \in 1 .. Len(next_images) : Released(next_images[i].id)

\* C5 (hook failure): when the encode hook returns a write error for a task, the
\* worker releases the reservation of that task, ends with SEQ_WRITE_ERROR and
\* calls the hook no more.
C5_HookFailureReleases ==
    \A i \in 1 .. Len(hookLog) :
        (hookLog[i].result = SEQ_WRITE_ERROR /\ WorkerDone) =>
            /\ Released(hookLog[i].id)
            /\ failed = SEQ_WRITE_ERROR
            /\ i = Len(hookLog)

\* The notification number k was made by the writer of seq for index
Reported(k, seq, index) ==
    /\ k <= Len(notifyLog)
    /\ notifyLog[k].seq = seq
    /\ notifyLog[k].index = index

\* The scenario of two outputs A = 1 and B = 2 on a fresh registry: the first two
\* notifications are A for MaxNotifyIndex and B for MaxNotifyIndex - 2, in the
\* order given by aFirst
Scenario(aFirst) ==
    /\ nb_outputs = 2
    /\ IF aFirst
       THEN Reported(1, 1, MaxNotifyIndex) /\ Reported(2, 2, MaxNotifyIndex - 2)
       ELSE Reported(1, 2, MaxNotifyIndex - 2) /\ Reported(2, 1, MaxNotifyIndex)

\* The releases made so far: the counter starts at zero, goes up by one with
\* each slot granted and down by one with each release
Releases ==
    Cardinality({p \in Producers : prod[p] = "granted"}) - nb_blocks_active

\* C6 as claimed (multi-output scenario): after A reports 5 and B reports 3, in
\* either order, no release has fired; when B then reports 5, exactly one release
\* fires.
C6_Scenario ==
    \A aFirst \in BOOLEAN :
        Scenario(aFirst) =>
            /\ Len(notifyLog) = 2 => Releases = 0
            /\ (Len(notifyLog) = 3 /\ Reported(3, 2, MaxNotifyIndex)) => Releases = 1

\* C6 as amended: when B reports 3 before A reports 5, no release has fired after
\* the two reports; when A reports 5 first, the report of 3 by B fires a release,
\* both outputs having reached index 3; in both orders the report of 5 by B that
\* follows fires exactly one release.
C6_ScenarioAmended ==
    \A aFirst \in BOOLEAN :
        LET before == IF aFirst THEN 1 ELSE 0
        IN  Scenario(aFirst) =>
                /\ Len(notifyLog) = 2 => Releases = before
                /\ (Len(notifyLog) = 3 /\ Reported(3, 2, MaxNotifyIndex)) =>
                        Releases = before + 1

\* C6 witness: A reported 5, then B reported 3, then B reported 5
C6_Witness ==
    /\ Scenario(TRUE)
    /\ Len(notifyLog) = 3
    /\ Reported(3, 2, MaxNotifyIndex)
    /\ Releases = 2

\* C7 (release condition): with K > 1 outputs, a notification for index i changes
\* the counter or wakes a thread only if, once it is recorded, all K slots are
\* registered with an index of at least i, and then the counter goes down by one;
\* otherwise the counter is left as it was.
C7_ReleaseCondition ==
    [][(nb_outputs > 1 /\ Len(notifyLog') = Len(notifyLog) + 1) =>
        LET i == notifyLog'[Len(notifyLog')].index
            reached == \A k \in 0 .. (nb_outputs - 1) :
                            outputs'[k].seq # 0 /\ outputs'[k].index >= i
        IN  /\ (nb_blocks_active' # nb_blocks_active \/ prod' # prod) =>
                    (reached /\ nb_blocks_active' = nb_blocks_active - 1)
            /\ ~reached => (nb_blocks_active' = nb_blocks_active /\ prod' = prod)
      ]_vars

\* C7 witness: with two outputs, a notification that released nothing was followed
\* by one that released a slot and woke a parked thread
C7_Witness ==
    /\ nb_outputs = 2
    /\ Len(notifyLog) >= 2
    /\ ~notifyLog[1].fired
    /\ notifyLog[2].fired
    /\ \E p \in Producers : prod[p] = "woken"

\* The last call of seqwriter_set_max_active_blocks raised a positive ceiling while
\* at least as many threads as the difference were parked, it has returned, every
\* thread it woke has re-evaluated the wait condition, and no other release
\* happened since it began
RaiseSettled ==
    /\ raise.delta > 0
    /\ Cardinality(raise.waiting) >= raise.delta
    /\ setter.pc = "idle"
    /\ ~raise.released
    /\ \A p \in Producers : prod[p] # "woken"

StaleAccepted ==
    \E i \in 1 .. Len(submitted) : submitted[i].stale /\ submitted[i].ret = 0

\* The worker pops the task t from the queue in this step
Pops(t) ==
    /\ pc = "pop"
    /\ writes_queue # <<>>
    /\ t = Head(writes_queue)
    /\ t # ABORT_TASK
    /\ writes_queue' = Tail(writes_queue)

\* Once the worker holds a write error it calls the hook no more and ends with it
ErrorIsFinal ==
    retval = SEQ_WRITE_ERROR =>
        /\ hookLog' = hookLog
        /\ retval' = SEQ_WRITE_ERROR
        /\ pc' = "done" => failed' = SEQ_WRITE_ERROR

\* C9 as claimed (ordering violation): once an index that the cursor has passed is
\* submitted, the encode hook is not invoked again and the worker ends with
\* SEQ_WRITE_ERROR.
C9_StaleSubmissionFails ==
    [][StaleAccepted =>
        /\ hookLog' = hookLog
        /\ pc' = "done" => failed' = SEQ_WRITE_ERROR
      ]_vars

\* C9 as amended: when the worker pops a task whose index k >= 0 is below the
\* cursor, it holds a write error, calls the hook no more and ends with
\* SEQ_WRITE_ERROR; the tasks queued ahead of it are still encoded, and a worker
\* that stops before popping it keeps the status it stopped with.
C9_StalePopFails ==
    [][/\ \A t \in {Task(image, index, id) :
                        image \in {NULL, ImgA, ImgW}, index \in 0 .. MaxIndex,
                        id \in 1 .. MaxSubmit} :
            (Pops(t) /\ t.index < current_index) =>
                (retval' = SEQ_WRITE_ERROR /\ pc' = "process" /\ task' = t)
       /\ ErrorIsFinal
      ]_vars

\* C9 witness: an index below the cursor was submitted and accepted with a valid
\* image, the worker gave its slot back without encoding it and ended with
\* SEQ_WRITE_ERROR, no hook call having failed
C9_Witness ==
    /\ WorkerDone
    /\ failed = SEQ_WRITE_ERROR
    /\ Len(hookLog) >= 1
    /\ \A h \in 1 .. Len(hookLog) : hookLog[h].result = SEQ_OK
    /\ \E i \in 1 .. Len(submitted) :
            /\ submitted[i].stale
            /\ submitted[i].image = ImgA
            /\ Released(i)
            /\ \A h \in 1 .. Len(hookLog) : hookLog[h].id # i

\* The writer refuses images of another width or height
Strict ==
    \/ output_type = "SEQ_SER"
    \/ output_type = "SEQ_FITSEQ" /\ ~allow_heterogeneous_fitseq

\* C10 (metadata mismatch): in strict mode, when the worker pops an image whose
\* width or height differs from the established metadata, it holds a write error,
\* never invokes the encode hook for that image, nor for any later one, and ends
\* with SEQ_WRITE_ERROR.
C10_MismatchFails ==
    [][/\ \A t \in {Task(image, index, id) :
                        image \in {ImgA, ImgW, ImgC, ImgB}, index \in 0 .. MaxSubmit,
                        id \in 1 .. MaxSubmit} :
            (/\ Pops(t)
             /\ bitpix # 0
             /\ Strict
             /\ <<t.image.naxes[1], t.image.naxes[2]>> # <<naxes[1], naxes[2]>>) =>
                /\ retval' = SEQ_WRITE_ERROR /\ pc' = "process" /\ task' = t
                /\ \A h \in 1 .. Len(hookLog) : hookLog[h].id # t.id
       /\ ErrorIsFinal
      ]_vars

\* C10 witness: in strict mode an image was written, then an image of another
\* width was submitted; the worker gave its slot back, never encoded it and ended
\* with SEQ_WRITE_ERROR
C10_Witness ==
    /\ WorkerDone
    /\ failed = SEQ_WRITE_ERROR
    /\ Strict
    /\ Len(hookLog) >= 1
    /\ submitted[1].image = ImgA
    /\ \E i \in 2 .. Len(submitted) :
            /\ submitted[i].image = ImgW
            /\ Released(i)
            /\ \A h \in 1 .. Len(hookLog) : hookLog[h].id # i

\* The worker takes a step on the hole it holds: the task in hand has no image, an
\* index of the sequence and no error is pending
SkipsHole ==
    /\ pc = "process"
    /\ pc' # pc
    /\ task.image = NULL
    /\ task.index >= 0
    /\ retval # SEQ_WRITE_ERROR

\* C11 (holes): when the worker processes the hole submitted for index k, it makes
\* no hook call, takes one off the expected count, leaves the frames written as
\* they were, releases the reservation of the task and moves the cursor from k to
\* k + 1; the expected count changes in no other step before the worker leaves its
\* loop, and no hole is ever passed to the hook.
C11_Holes ==
    [][/\ SkipsHole =>
            /\ hookLog' = hookLog
            /\ frame_count' = frame_count - 1
            /\ nb_frames_written' = nb_frames_written
            /\ nb_blocks_active' = nb_blocks_active - 1
            /\ notifyLog' = Append(notifyLog, notifyLog'[Len(notifyLog')])
            /\ notifyLog'[Len(notifyLog')].id = task.id
            /\ notifyLog'[Len(notifyLog')].fired
            /\ current_index = task.index
            /\ current_index' = task.index + 1
       /\ (frame_count' # frame_count /\ pc # "exit") => SkipsHole
       /\ \A h \in 1 .. Len(hookLog') : submitted[hookLog'[h].id].image # NULL
      ]_vars

\* C11 witness: index 1 arrived with an image before the hole of index 0; the hole
\* was skipped, its slot given back, and the image of index 1 was then encoded as
\* the first frame
C11_Witness ==
    /\ Len(submitted) >= 2
    /\ submitted[1].index = 1 /\ submitted[1].image = ImgA
    /\ submitted[2].index = 0 /\ submitted[2].image = NULL
    /\ Released(2)
    /\ Len(hookLog) = 1
    /\ hookLog[1].id = 1 /\ hookLog[1].ordinal = 0
    /\ nb_frames_written = 1
    /\ current_index = 2

\* The serial numbers of the tasks in the queue
QueuedIds == {writes_queue[i].id : i \in 1 .. Len(writes_queue)} \ {ABORT_TASK.id}

\* The serial numbers of the tasks parked in the waiting list
ParkedIds == {next_images[i].id : i \in 1 .. Len(next_images)}

\* No call of the encode hook has failed
HookNeverFailed == \A h \in 1 .. Len(hookLog) : hookLog[h].result = SEQ_OK

\* The abort scenario: images were submitted for the indices 0, 1 and MaxIndex + 1
\* and for no index between, the abort signal was then pushed at the front of the
\* queue, no hook call failed, and the worker has ended
AbortScenario ==
    /\ stopper = "abort"
    /\ WorkerDone
    /\ HookNeverFailed
    /\ Len(submitted) = 3
    /\ {submitted[i].index : i \in 1 .. Len(submitted)} = {0, 1, MaxIndex + 1}
    /\ \A i \in 1 .. Len(submitted) : submitted[i].image = ImgA /\ submitted[i].ret = 0
    /\ QueuedIds \subseteq stopLog.queued

\* C12 as claimed (abort scenario status): a front abort signal pushed while the
\* indices {0, 1, 3} are queued or buffered and index 2 never arrives ends the
\* worker with SEQ_INCOMPLETE and two frames written.
C12_AbortScenario ==
    AbortScenario => failed = SEQ_INCOMPLETE /\ nb_frames_written = 2

\* C12 as amended: in that scenario the frames written are those of the indices
\* 0 and 1 that the worker encoded before it popped the signal, two at most, the
\* tasks still in the queue when the signal is pushed being abandoned; the status
\* is SEQ_INCOMPLETE when index 3 is left parked in the waiting list or the
\* expected count is known, and SEQ_OK otherwise.
C12_AbortScenarioAmended ==
    AbortScenario =>
        /\ nb_frames_written = Len(hookLog)
        /\ nb_frames_written <= 2
        /\ \A h \in 1 .. Len(hookLog) : hookLog[h].index = h - 1
        /\ failed = IF ParkedIds # {} \/ frame_count = MaxFrames
                    THEN SEQ_INCOMPLETE ELSE SEQ_OK

\* C12 witness: in the scenario the indices 0 and 1 were encoded, index 3 was left
\* parked and the worker ended with SEQ_INCOMPLETE
C12_Witness ==
    /\ AbortScenario
    /\ Len(hookLog) = 2
    /\ nb_frames_written = 2
    /\ ParkedIds # {}
    /\ failed = SEQ_INCOMPLETE

\* The worker has ended after a graceful stop was requested, no hook call failed
\* and no task was rejected for its properties or its index
GracefulEnd ==
    /\ stopper = "graceful"
    /\ WorkerDone
    /\ HookNeverFailed
    /\ failed # SEQ_WRITE_ERROR

\* The worker has ended with fewer frames written than a known expected count
ShortOfCount == frame_count > nb_frames_written

\* C13 as claimed (graceful stop is reported as success): after a back-of-queue
\* signal, with no hook error and no consistency violation, the terminal status
\* is SEQ_OK, even when fewer frames than the expected count were written.
C13_GracefulIsSuccess ==
    GracefulEnd => failed = SEQ_OK

\* C13 as amended: after a back-of-queue signal, with no hook error and no
\* consistency violation, a worker that ends on the signal reports SEQ_INCOMPLETE
\* when tasks are left parked in the waiting list or fewer frames than a known
\* expected count were written, and SEQ_OK otherwise; a worker that reached the
\* expected count before the signal reports SEQ_OK.
C13_GracefulStatus ==
    GracefulEnd =>
        failed = IF task = ABORT_TASK /\ (ParkedIds # {} \/ ShortOfCount)
                 THEN SEQ_INCOMPLETE ELSE SEQ_OK

\* C13 witness: a graceful stop ended a worker that had written two frames of an
\* expected count of MaxFrames, nothing being left parked, with SEQ_INCOMPLETE
C13_Witness ==
    /\ GracefulEnd
    /\ task = ABORT_TASK
    /\ frame_count = MaxFrames
    /\ nb_frames_written = MaxFrames - 1
    /\ ParkedIds = {}
    /\ failed = SEQ_INCOMPLETE

\* The worker has ended on the signal of a graceful stop
GracefulSeen ==
    /\ stopper = "graceful"
    /\ WorkerDone
    /\ task = ABORT_TASK

\* The serial numbers of the tasks enqueued before the termination signal
EnqueuedBefore == {i \in 1 .. stopLog.submitted : submitted[i].ret = 0}

\* The task of serial number id was passed to the encode hook
Encoded(id) == \E h \in 1 .. Len(hookLog) : hookLog[h].id = id

\* The task of serial number id was a hole and the worker skipped it
Skipped(id) ==
    /\ submitted[id].image = NULL
    /\ \E j \in 1 .. Len(notifyLog) : notifyLog[j].id = id

\* C14 as claimed (graceful stop drains): when the worker ends on the signal of a
\* graceful stop, every task enqueued before the signal has been popped, and all of
\* them, those held for reordering included, have been encoded or skipped.
C14_GracefulDrains ==
    GracefulSeen =>
        \A i \in EnqueuedBefore :
            /\ i \notin QueuedIds
            /\ Encoded(i) \/ Skipped(i)

\* C14 as amended: when the worker ends on the signal of a graceful stop, every
\* task enqueued before the signal has been popped, and each of them has been
\* encoded or skipped unless it is still parked in the waiting list: a parked task
\* has an index above the cursor, no task enqueued before the signal has the index
\* of the cursor, and the worker then ends with SEQ_INCOMPLETE.
C14_GracefulDrainsToGap ==
    GracefulSeen =>
        /\ \A i \in EnqueuedBefore :
                /\ i \notin QueuedIds
                /\ (Encoded(i) \/ Skipped(i)) # (i \in ParkedIds)
                /\ i \in ParkedIds => submitted[i].index > current_index
                /\ submitted[i].index # current_index
        /\ ParkedIds \subseteq EnqueuedBefore
        /\ ParkedIds # {} => failed = SEQ_INCOMPLETE

\* C14 witness: index 1 was submitted before index 0, then a hole for index 2, then
\* the graceful stop; the worker encoded 0, then the held 1, skipped 2 and ended on
\* the signal
C14_Witness ==
    /\ GracefulSeen
    /\ stopLog.submitted = 3
    /\ Len(hookLog) = 2
    /\ hookLog[1].id = 2 /\ hookLog[1].index = 0
    /\ hookLog[2].id = 1 /\ hookLog[2].index = 1
    /\ Skipped(3)
    /\ ParkedIds = {}

\* The worker, stopped by the termination signal while the expected count is
\* unknown, takes its last step
EndsUnknown ==
    /\ pc = "exit"
    /\ pc' = "done"
    /\ retval = SEQ_INCOMPLETE
    /\ frame_count <= 0

\* C15 as claimed (unknown count finishes as success): a worker stopped by the
\* signal while the expected count is unknown records the frames written as the
\* final frame count and reports SEQ_OK.
C15_UnknownIsSuccess ==
    [][EndsUnknown => frame_count' = nb_frames_written /\ failed' = SEQ_OK]_vars

\* C15 as amended: a worker stopped by the signal while the expected count is
\* unknown records the frames written as the final frame count, and reports SEQ_OK
\* when its waiting list is empty, SEQ_INCOMPLETE when tasks are left parked in it.
C15_UnknownStatus ==
    [][EndsUnknown =>
        /\ frame_count' = nb_frames_written
        /\ failed' = IF next_images = <<>> THEN SEQ_OK ELSE SEQ_INCOMPLETE
      ]_vars

\* C15 witness: a worker of unknown count was stopped after two frames, nothing
\* being parked, and ended with SEQ_OK and a frame count of two
C15_Witness ==
    /\ WorkerDone
    /\ task = ABORT_TASK
    /\ ParkedIds = {}
    /\ nb_frames_written = 2
    /\ frame_count = 2
    /\ failed = SEQ_OK

\* C16 as claimed (immediate abort abandons buffered tasks): no task that was
\* parked in the waiting list when a front abort signal was pushed is ever passed
\* to the encode hook.
C16_AbortAbandonsParked ==
    \A h \in 1 .. Len(hookLog) : hookLog[h].id \notin stopLog.parked

\* C16 as amended: the worker goes back to the queue, where it finds the signal,
\* only when no parked task has the index of the cursor, so a task parked when
\* the signal was pushed is still passed to the hook if the cursor reaches its
\* index first; once the worker has popped the signal it passes no task to the
\* hook and its waiting list stays as it is.
C16_AbortAbandonsParkedAtPop ==
    [][/\ task = ABORT_TASK => hookLog' = hookLog /\ next_images' = next_images
       /\ pc' = "pop" =>
            \A i \in 1 .. Len(next_images') : next_images'[i].index > current_index'
       /\ (Len(hookLog') > Len(hookLog) /\ task.id \in stopLog.parked) =>
            task.index = current_index /\ pc = "process"
      ]_vars

\* C16 witness: two tasks were parked when the abort signal was pushed; the worker
\* encoded the one that came next in order, then popped the signal and ended with
\* the other still parked
C16_Witness ==
    /\ WorkerDone
    /\ task = ABORT_TASK
    /\ Cardinality(stopLog.parked) = 2
    /\ \E i \in stopLog.parked : Encoded(i)
    /\ \E i \in stopLog.parked : i \in ParkedIds /\ ~Encoded(i)

\* C17 (immediate abort abandons queued tasks): no task that was in the queue
\* when a front abort signal was pushed is ever popped by the worker, parked in
\* its waiting list or passed to the encode hook.
C17_AbortAbandonsQueued ==
    \A i \in stopLog.queued :
        /\ ~Encoded(i)
        /\ i \notin ParkedIds
        /\ task.id # i
        /\ \A j \in 1 .. Len(notifyLog) : notifyLog[j].id # i

\* C17 witness: the abort signal was pushed while the image of the index of the
\* cursor was in the queue; the worker ended on the signal and the image is still
\* in the queue
C17_Witness ==
    /\ WorkerDone
    /\ task = ABORT_TASK
    /\ stopper = "abort"
    /\ \E i \in stopLog.queued :
            /\ i \in QueuedIds
            /\ submitted[i].image = ImgA
            /\ submitted[i].index = current_index

\* C18 (submit fails fast after failure): once the worker has ended with
\* SEQ_WRITE_ERROR, every call of seqwriter_append_write returns -1 and leaves
\* the queue as it was, before and after stop_writer has joined the worker.
C18_SubmitFailsFast ==
    [][(WorkerDone /\ failed = SEQ_WRITE_ERROR /\ Len(submitted') > Len(submitted)) =>
        /\ submitted'[Len(submitted')].ret = 0 - 1
        /\ writes_queue' = writes_queue
      ]_vars

\* C18 witness: the worker ended with SEQ_WRITE_ERROR on a failed hook call, the
\* two submissions that followed were refused, and stop_writer has joined the worker
C18_Witness ==
    /\ WorkerDone
    /\ failed = SEQ_WRITE_ERROR
    /\ stopper = "joined"
    /\ Len(submitted) = 3
    /\ submitted[1].ret = 0
    /\ submitted[2].ret = 0 - 1
    /\ submitted[3].ret = 0 - 1
    /\ Len(hookLog) = 1
    /\ hookLog[1].result = SEQ_WRITE_ERROR

\* stop_writer has pushed its signal and not yet returned
Stopping == stopper \in {"abort", "graceful"}

\* stop_writer has returned the status with which the worker ended
Stopped ==
    /\ stopper = "joined"
    /\ WorkerDone
    /\ retval = failed
    /\ retval \in {SEQ_OK, SEQ_WRITE_ERROR, SEQ_INCOMPLETE}

\* C19 (stop terminates and reports): after stop_writer, graceful or aborting, has
\* pushed its signal, whatever the worker is doing, and every hook call returning,
\* the worker eventually ends and stop_writer returns its terminal status,
\* SEQ_OK, SEQ_WRITE_ERROR or SEQ_INCOMPLETE.
C19_StopTerminates == Stopping ~> Stopped

\* C19 witness: stop_writer has returned SEQ_INCOMPLETE from a worker that had
\* encoded an image and was left with a parked task
C19_Witness ==
    /\ Stopped
    /\ retval = SEQ_INCOMPLETE
    /\ ParkedIds # {}
    /\ Len(hookLog) >= 1

\* seqwriter_append_write is defined and the bound of the model on the number of
\* submissions is not reached
MaySubmit ==
    /\ write_thread \/ failed # 0
    /\ Len(submitted) < MaxSubmit

\* C20 (submission never blocks): a thread that holds a slot can complete
\* seqwriter_append_write at once, with an image or a hole, whatever the worker is
\* doing and however many tasks are queued; and a processing thread that is not
\* parked in seqwriter_wait_for_memory can always take its next step.
C20_SubmitNeverBlocks ==
    \A p \in Submitters :
        /\ (MaySubmit /\ prod[p] \in {"granted", "unlimited"}) =>
                /\ ENABLED ProducerSubmit(p, ImgA, 0)
                /\ ENABLED ProducerSubmit(p, NULL, MaxIndex)
        /\ prod[p] \in {"idle", "lock", "woken", "granted"} =>
                ENABLED (WaitEnter(p) \/ WaitCheck(p) \/ ReleaseMemory(p))

\* C20 witness: a thread holds a slot and may submit while the worker is inside
\* the encode hook and a task is already in the queue
C20_Witness ==
    /\ MaySubmit
    /\ pc = "hooked"
    /\ Len(writes_queue) = 1
    /\ \E p \in Submitters : prod[p] \in {"granted", "unlimited"}

\* stop_writer takes a step, or the worker takes one on the termination signal:
\* it pops the signal, or ends after having popped it
StopStep ==
    \/ stopper' # stopper
    \/ pc' # pc /\ task' = ABORT_TASK

\* C21 (stopping does not free memory slots): neither stop_writer nor the worker's
\* handling of the termination signal changes the counter of active blocks or
\* wakes a thread, and a thread parked in seqwriter_wait_for_memory leaves the wait
\* only in a step that gives a slot back.
C21_StopFreesNothing ==
    [][/\ StopStep =>
            /\ nb_blocks_active' = nb_blocks_active
            /\ prod' = prod
            /\ notifyLog' = notifyLog
       /\ \A p \in Producers :
            (prod[p] = "parked" /\ prod'[p] # "parked") =>
                nb_blocks_active' = nb_blocks_active - 1
      ]_vars

\* C21 witness: the worker was stopped with a task left in its waiting list and
\* joined; the slot of the task is still counted and a thread is still parked
C21_Witness ==
    /\ stopper = "joined"
    /\ task = ABORT_TASK
    /\ ParkedIds # {}
    /\ nb_blocks_active = configured_max_active_blocks
    /\ \E p \in Producers : prod[p] = "parked"

\* No image or hole has been submitted for the index k
NeverSubmitted(k) == \A i \in 1 .. Len(submitted) : submitted[i].index # k

\* The worker has encoded or skipped a task submitted for an index above k
ConsumedAbove(k) ==
    \/ \E h \in 1 .. Len(hookLog) : hookLog[h].index > k
    \/ \E j \in 1 .. Len(notifyLog) :
            /\ notifyLog[j].index > k
            /\ submitted[notifyLog[j].id].image = NULL

\* The worker has left its loop
WorkerLeft == pc \in {"exit", "done"}

\* C22 as claimed (a missing index blocks the writer): as long as some index k is
\* not submitted and no termination signal is sent, the worker encodes or skips no
\* index greater than k and does not terminate.
C22_MissingIndexBlocks ==
    \A k \in 0 .. MaxIndex :
        (NeverSubmitted(k) /\ stopper = "none") =>
            ~ConsumedAbove(k) /\ ~WorkerLeft

\* C22 as amended: as long as some index k >= 0 is not submitted, every submitted
\* index is at least 0 and no termination signal is sent, the cursor stays at or
\* below k, the worker encodes or skips no index greater than k, and it leaves its
\* loop only on a write error (a failed hook call, an image of other properties
\* or an index below the cursor).
C22_MissingIndexBlocksOrFails ==
    \A k \in 0 .. MaxIndex :
        (/\ NeverSubmitted(k)
         /\ stopper = "none"
         /\ \A i \in 1 .. Len(submitted) : submitted[i].index >= 0) =>
            /\ current_index <= k
            /\ ~ConsumedAbove(k)
            /\ WorkerLeft => retval = SEQ_WRITE_ERROR

\* C22 witness: index 0 was never submitted, the images of the indices 1 and 2
\* are parked, and the worker waits on the empty queue
C22_Witness ==
    /\ NeverSubmitted(0)
    /\ stopper = "none"
    /\ pc = "pop"
    /\ writes_queue = <<>>
    /\ {next_images[i].index : i \in 1 .. Len(next_images)} = {1, 2}
    /\ hookLog = <<>>

\* The worker passes the task it holds to the encode hook in this step
EncodesTask == Len(hookLog') > Len(hookLog)

\* The worker skips the hole it holds in this step
SkipsTask ==
    /\ pc = "process"
    /\ pc' # pc
    /\ task.image = NULL
    /\ retval # SEQ_WRITE_ERROR

\* The worker records the task it holds as written in this step
WritesTask == nb_frames_written' = nb_frames_written + 1

\* The tasks that may be in the queue
QueueTasks ==
    {Task(image, index, id) :
        image \in {NULL, ImgA, ImgW}, index \in Indices, id \in 1 .. MaxSubmit}

\* The cursor never decreases and advances by exactly one with each task
\* written or skipped
CursorCounts ==
    /\ current_index' \in {current_index, current_index + 1}
    /\ current_index' = current_index + 1 <=> (WritesTask \/ SkipsTask)

\* C23 as claimed (consumption only at the cursor): whatever integer a task
\* carries as index, the worker encodes or skips it only when its index equals
\* current_index; the cursor never decreases and advances by exactly one per task
\* written or skipped; a popped task whose index is below the cursor makes the
\* worker hold a write error and is not encoded.
C23_OnlyAtCursor ==
    [][/\ (EncodesTask \/ SkipsTask) => task.index = current_index
       /\ CursorCounts
       /\ \A t \in QueueTasks :
            (Pops(t) /\ t.index < current_index) =>
                (retval' = SEQ_WRITE_ERROR /\ pc' = "process" /\ task' = t)
       /\ ErrorIsFinal
      ]_vars

\* C23 as amended: the worker encodes or skips a task of index >= 0 only when
\* its index equals current_index, and takes a task of negative index as the
\* task of the cursor, whatever the cursor is; the cursor never decreases and
\* advances by exactly one per task written or skipped; a popped task whose index
\* is at least 0 and below the cursor makes the worker hold a write error and is
\* not encoded.
C23_OnlyAtCursorFromZero ==
    [][/\ (EncodesTask \/ SkipsTask) => (task.index = current_index \/ task.index < 0)
       /\ CursorCounts
       /\ \A t \in QueueTasks :
            /\ (Pops(t) /\ t.index >= 0 /\ t.index < current_index) =>
                    (retval' = SEQ_WRITE_ERROR /\ pc' = "process" /\ task' = t)
            /\ (Pops(t) /\ t.index < 0 /\ ~incompatible(t.image)) =>
                    (retval' = retval /\ pc' = "process" /\ task' = t)
       /\ ErrorIsFinal
      ]_vars

\* C23 witness: index 1 was parked, index 0 encoded, then the parked index 1, and
\* an image submitted with the index -1 was encoded as the third frame, the
\* cursor being at 2
C23_Witness ==
    /\ Len(hookLog) = 3
    /\ hookLog[1].index = 0 /\ hookLog[1].id = 2
    /\ hookLog[2].index = 1 /\ hookLog[2].id = 1
    /\ hookLog[3].index = 0 - 1 /\ hookLog[3].ordinal = 2
    /\ current_index = 3

\* The reservations granted by seqwriter_wait_for_memory and not yet released, when
\* each thread gives its slot back itself
Held == Cardinality({p \in Producers : prod[p] = "granted"})

\* C24 (the bound survives reconfiguration): once seqwriter_set_max_active_blocks
\* has raised the ceiling from M > 0 to M' > M while reservations are outstanding,
\* the reservations granted and not yet released never exceed M' once the call
\* has returned.
C24_BoundSurvivesRaise ==
    (raise.delta > 0 /\ setter.pc = "idle") => Held <= configured_max_active_blocks

\* Every submission so far carried a hole or an image of the same properties
ImagesOrHoles == \A i \in 1 .. Len(submitted) : submitted[i].image \in {NULL, ImgA}

\* C25 (the worker stops on its own when the count is reached): with a known count
\* N > 0 and any mix of images and holes over the indices [0, N), the worker stays
\* in its loop only while the frames written are below the expected count less
\* the holes, and it leaves the loop with SEQ_OK.
C25_StopsAtCount ==
    /\ pc \in {"scan", "pop"} => nb_frames_written < frame_count
    /\ (WorkerDone /\ ImagesOrHoles) => failed = SEQ_OK

\* The counter, the ceiling or the registry is written in this step
PoolWritten ==
    <<nb_blocks_active, configured_max_active_blocks, nb_outputs, outputs>>' #
        <<nb_blocks_active, configured_max_active_blocks, nb_outputs, outputs>>

\* C26 (lock discipline): every write to the counter, the ceiling and the
\* registry is made with pool_mutex held, so that while a thread is inside the
\* critical section of seqwriter_wait_for_memory, between its test of the counter
\* and its increment, the only write is the increment of that thread.
C26_LockDiscipline ==
    [][(~pool_mutex_free /\ PoolWritten) =>
        \E p \in Producers :
            /\ prod[p] \in {"passed", "passed_woken"}
            /\ prod'[p] = "granted"
            /\ nb_blocks_active' = nb_blocks_active + 1
            /\ UNCHANGED <<configured_max_active_blocks, nb_outputs, outputs>>
      ]_vars

\* The worker is done in this step with the task it holds, by the rejection of the
\* inner loop (different properties or index below the cursor), by the skip of a
\* hole or after a successful call of the hook
ConsumesTask ==
    \/ /\ pc = "process"
       /\ pc' # pc
       /\ retval = SEQ_WRITE_ERROR \/ task.image = NULL
    \/ /\ pc = "hooked"
       /\ pc' # pc
       /\ retval # SEQ_WRITE_ERROR

\* This step makes one notification, for the task the worker holds, which was
\* never notified before
NotifiesOnce ==
    /\ Len(notifyLog') = Len(notifyLog) + 1
    /\ SubSeq(notifyLog', 1, Len(notifyLog)) = notifyLog
    /\ notifyLog'[Len(notifyLog')].seq = WriterSeq
    /\ notifyLog'[Len(notifyLog')].index = task.index
    /\ notifyLog'[Len(notifyLog')].id = task.id
    /\ \A j \in 1 .. Len(notifyLog) : notifyLog[j].id # task.id

\* C27 (exactly-once release per consumed task): each step in which the worker is
\* done with a task by the success path, the hole-skip path, the mismatch path or
\* the ordering-violation path makes exactly one notification, for the index of
\* that task, which was never notified before; and no other step of the worker
\* notifies anything, so that no task is notified twice.
C27_ReleasedExactlyOnce ==
    [][/\ ConsumesTask => NotifiesOnce
       /\ notifyLog' # notifyLog => ConsumesTask]_vars

\* An image was written, a hole skipped and an image of the established
\* properties rejected for its index below the cursor: three notifications
C27_Witness ==
    /\ WorkerDone
    /\ HookNeverFailed
    /\ failed = SEQ_WRITE_ERROR
    /\ Len(notifyLog) = 3
    /\ Encoded(notifyLog[1].id) /\ submitted[notifyLog[1].id].image = ImgA
    /\ Skipped(notifyLog[2].id)
    /\ submitted[notifyLog[3].id].image = ImgA
    /\ ~Encoded(notifyLog[3].id)
    /\ notifyLog[3].index < current_index

\* The number of calls of the hook that succeeded so far
WrittenSoFar ==
    Cardinality({h \in 1 .. Len(hookLog) : hookLog[h].result # SEQ_WRITE_ERROR})

\* The number of holes skipped so far, while the worker is in its loop (a
\* notification for a hole is a skip as long as nothing was rejected)
HolesSkipped ==
    Cardinality({j \in 1 .. Len(notifyLog) : submitted[notifyLog[j].id].image = NULL})

\* The ordinal of the call made in this step is the number of frames written
\* before it, which is also the number of calls made before it
OrdinalCounts ==
    /\ hookLog'[Len(hookLog')].ordinal = WrittenSoFar
    /\ hookLog'[Len(hookLog')].ordinal = Len(hookLog)

\* C28 as claimed (hook ordinal): the ordinal passed to the hook on each call is
\* the number of frames written before the call, so that the calls of one run
\* receive 0, 1, 2, ... with no gap and no repeat, and it equals the index of the
\* task minus the number of holes skipped before it.
C28_HookOrdinal ==
    [][EncodesTask =>
        /\ OrdinalCounts
        /\ hookLog'[Len(hookLog')].ordinal = task.index - HolesSkipped]_vars

\* C28 amended: the ordinal is the number of frames written before the call, 0,
\* 1, 2, ... with no gap and no repeat, and equals the cursor minus the number of
\* holes skipped before the call; the cursor is the index of the task when that
\* index is not negative (a task of negative index is taken at the cursor
\* whatever it is).
C28_HookOrdinalAtCursor ==
    [][EncodesTask =>
        /\ OrdinalCounts
        /\ hookLog'[Len(hookLog')].ordinal = current_index - HolesSkipped
        /\ task.index >= 0 => task.index = current_index]_vars

\* Two calls of the hook with a hole skipped between them: the task of index 2
\* was given the ordinal 1
C28_Witness ==
    /\ Len(hookLog) = 2
    /\ hookLog[1].index = 0 /\ hookLog[1].ordinal = 0
    /\ hookLog[2].index = 2 /\ hookLog[2].ordinal = 1
    /\ \E j \in 1 .. Len(notifyLog) :
          notifyLog[j].index = 1 /\ submitted[notifyLog[j].id].image = NULL

\* The image differs from the established metadata in a way the writer refuses:
\* the channel count, the bit depth, or the width or height for a SER file or for
\* a FITS cube with the heterogeneous switch off
Refused(image) ==
    \/ image.naxes[3] # naxes[3]
    \/ image.bitpix # bitpix
    \/ /\ <<image.naxes[1], image.naxes[2]>> # <<naxes[1], naxes[2]>>
       /\ output_type = "SEQ_SER"
    \/ /\ <<image.naxes[1], image.naxes[2]>> # <<naxes[1], naxes[2]>>
       /\ output_type = "SEQ_FITSEQ"
       /\ ~allow_heterogeneous_fitseq

\* The worker pops a task from the queue in this step
PopsTask ==
    /\ pc = "pop"
    /\ writes_queue # <<>>
    /\ Head(writes_queue) # ABORT_TASK
    /\ writes_queue' = Tail(writes_queue)

\* The task popped in this step is rejected with a write error
Rejects == retval' = SEQ_WRITE_ERROR /\ pc' = "process" /\ task' = Head(writes_queue)

\* C29 as claimed (compatibility predicate): once the metadata is established, a
\* popped image is rejected with a write error exactly when its channel count or
\* its bit depth differs, or its width or height differs and the output is a SER
\* file, or a FITS cube with the heterogeneous switch off; a hole is never
\* rejected.
C29_CompatibilityPredicate ==
    [][PopsTask =>
        IF Head(writes_queue).image = NULL
        THEN ~Rejects
        ELSE bitpix # 0 => (Rejects <=> Refused(Head(writes_queue).image))]_vars

\* The index of the task at the head of the queue is below the cursor
BelowCursor ==
    Head(writes_queue).index >= 0 /\ Head(writes_queue).index < current_index

\* C29 amended: once the metadata is established, a popped image is rejected
\* with a write error exactly when it differs in one of these ways or its index is
\* below the cursor; the image that establishes the metadata, and a hole, are
\* rejected exactly when their index is below the cursor.
C29_CompatibilityOrOrdering ==
    [][PopsTask =>
        IF Head(writes_queue).image = NULL \/ bitpix = 0
        THEN Rejects <=> BelowCursor
        ELSE Rejects <=> (Refused(Head(writes_queue).image) \/ BelowCursor)]_vars

\* A SER writer with the heterogeneous switch on wrote an image and rejected the
\* next one for its other width
C29_Witness ==
    /\ WorkerDone
    /\ failed = SEQ_WRITE_ERROR
    /\ output_type = "SEQ_SER"
    /\ allow_heterogeneous_fitseq
    /\ Len(submitted) = 2
    /\ submitted[1].image = ImgA /\ submitted[1].index = 0
    /\ submitted[2].image = ImgW /\ submitted[2].index = 1
    /\ Len(hookLog) = 1
    /\ Released(2)

\* A notification is made in this step
Notifies == Len(notifyLog') = Len(notifyLog) + 1

\* The index recorded for the sequence before this step (-1 when the sequence has
\* no slot yet and takes a free one)
PreviousIndex(seq) ==
    IF \E i \in 0 .. (nb_outputs - 1) : outputs[i].seq = seq
    THEN outputs[CHOOSE i \in 0 .. (nb_outputs - 1) : outputs[i].seq = seq].index
    ELSE 0 - 1

\* The worker goes on after this step unless it was to stop anyway, on a task it
\* rejected or at the end of its loop, and its status is what it was
WorkerUndisturbed ==
    /\ retval' = retval
    /\ failed' = failed
    /\ pc' = "exit" =>
          \/ retval = SEQ_WRITE_ERROR
          \/ ~loop_continues(retval, frame_count', nb_frames_written')
    /\ pc' # "exit" => pc' = "scan"

\* C30 (inconsistent notifications are surfaced, not fatal): in multi-output
\* mode, a notification for an output that has a slot, with an index that does not
\* follow the index recorded for that output (a lower one in particular), is
\* reported; the index is recorded all the same, the release condition is
\* evaluated on the registry so updated, and the worker that made the
\* notification neither stops nor changes its status because of it.
C30_InconsistentSurfaced ==
    [][(/\ Notifies
        /\ nb_outputs > 1
        /\ notifyLog'[Len(notifyLog')].slot >= 0
        /\ notifyLog'[Len(notifyLog')].index #
                PreviousIndex(notifyLog'[Len(notifyLog')].seq) + 1) =>
            /\ notifyLog'[Len(notifyLog')].reported
            /\ outputs'[notifyLog'[Len(notifyLog')].slot] =
                    [seq |-> notifyLog'[Len(notifyLog')].seq,
                     index |-> notifyLog'[Len(notifyLog')].index]
            /\ notifyLog'[Len(notifyLog')].fired <=>
                    all_outputs_to_index(outputs', nb_outputs,
                                         notifyLog'[Len(notifyLog')].index)
            /\ nb_blocks_active' = IF notifyLog'[Len(notifyLog')].fired
                                   THEN nb_blocks_active - 1 ELSE nb_blocks_active
            /\ notifyLog'[Len(notifyLog')].id # 0 => WorkerUndisturbed
      ]_vars

\* With two outputs, the worker notified index 0 for its first frame, then the
\* lower index -1 for a task of negative index, which was reported and recorded;
\* the other writer had reached index 0, so that the notification released a slot;
\* the worker wrote that second frame and ended with SEQ_OK
C30_Witness ==
    /\ nb_outputs = 2
    /\ WorkerDone
    /\ failed = SEQ_OK
    /\ nb_frames_written = 2
    /\ \E j \in 2 .. Len(notifyLog) :
          /\ notifyLog[j].id # 0
          /\ notifyLog[j].reported
          /\ notifyLog[j].fired
          /\ notifyLog[j].index = 0 - 1
          /\ \E k \in 1 .. (j - 1) :
                notifyLog[k].id # 0 /\ notifyLog[k].index = 0 /\ ~notifyLog[k].reported
    /\ \E i \in 0 .. 1 : outputs[i] = [seq |-> WriterSeq, index |-> 0 - 1]

\* The worker ended with SEQ_OK and every frame of the sequence written
Completed ==
    /\ WorkerDone
    /\ failed = SEQ_OK
    /\ nb_frames_written = MaxFrames
    /\ Len(hookLog) = MaxFrames

\* C31 (no memory-slot deadlock with reserve-first producers): with processing
\* threads that reserve a slot before they take the next index, and a hook that
\* never fails, every run that keeps all threads scheduled brings the worker to
\* SEQ_OK with all the frames written; a state where no thread can move before
\* that would be a run that never gets there.
C31_ReserveFirstCompletes == <>Completed

\* C31 witness: behind a ceiling of one, with a thread parked for the slot, the
\* worker wrote all the frames and ended with SEQ_OK
C31_Witness ==
    /\ Completed
    /\ configured_max_active_blocks = 1
    /\ \E p \in Waiters : prod[p] \in {"parked", "woken"}

\* The images submitted and not consumed yet, in the queue or in the waiting list
Pending == writes_queue \o next_images

\* The worker waits for the index of its cursor, which is neither in the queue nor
\* in the waiting list
WaitsForCursor ==
    /\ pc \in {"scan", "pop"}
    /\ \A i \in 1 .. Len(Pending) : Pending[i].index > current_index

\* C32 (no memory-slot deadlock when indices are taken before reserving): with a
\* ceiling of at least the number of processing threads, the worker never waits
\* for the index of its cursor while the thread that took this index is blocked in
\* seqwriter_wait_for_memory and every slot is held by a later image, queued or in
\* the waiting list.
C32_IndexFirstNeverStarves ==
    ~(/\ WaitsForCursor
      /\ \E p \in Waiters : claimed[p] = current_index /\ prod[p] = "parked"
      /\ nb_blocks_active = configured_max_active_blocks
      /\ Len(Pending) = configured_max_active_blocks)

\* The positions in the log of the notifications of an index
NotificationsOf(index) == {j \in 1 .. Len(notifyLog) : notifyLog[j].index = index}

\* C33 (one release per index across outputs): with several outputs whose writers
\* notify each index once in ascending order, the notifications of an index
\* release nothing until every output has notified it, and exactly one of them
\* releases a slot: the last one. Once all have notified every index there has
\* been one release per index.
C33_OneReleasePerIndex ==
    nb_outputs > 1 =>
        \A index \in 0 .. MaxIndex :
            \A j \in NotificationsOf(index) :
                notifyLog[j].fired <=>
                    /\ Cardinality({k \in NotificationsOf(index) : k <= j}) = nb_outputs
                    /\ \A s \in 1 .. nb_outputs :
                          \E k \in NotificationsOf(index) : k <= j /\ notifyLog[k].seq = s

\* C33 witness: two outputs notified every index, the first running ahead of the
\* second on the index 0 and behind it on the last index, and one release fired
\* for each index
C33_Witness ==
    /\ nb_outputs = 2
    /\ Len(notifyLog) = 2 * (MaxIndex + 1)
    /\ NbFired = MaxIndex + 1
    /\ notifyLog[1].seq = 1 /\ notifyLog[2].seq = 1
    /\ notifyLog[Len(notifyLog)].seq = 1
    /\ nb_blocks_active <= 0 - MaxIndex

\* A call of seqwriter_append_write returns success in this step
Accepts ==
    /\ Len(submitted') = Len(submitted) + 1
    /\ submitted'[Len(submitted')].ret = 0

\* C34 (accepted tasks reach a live worker): whenever seqwriter_append_write
\* returns success, the task goes to the queue of a worker that is still in its
\* loop; nothing is enqueued once the worker has left its loop, whatever its
\* status, or once stop_writer has joined it and released the queue.
C34_AcceptedReachLiveWorker ==
    [][Accepts =>
        /\ writes_queue' = Append(writes_queue, writes_queue'[Len(writes_queue')])
        /\ ~WorkerLeft
        /\ write_thread
        /\ stopper # "joined"]_vars

\* C35 (no stale buffer entries): every task held in the waiting list of the
\* worker has an index at or beyond the cursor, and no two of them have the same
\* index, whatever was submitted, the same index several times included.
C35_NoStaleBufferEntries ==
    /\ \A i \in 1 .. Len(next_images) : next_images[i].index >= current_index
    /\ \A i, j \in 1 .. Len(next_images) :
          next_images[i].index = next_images[j].index => i = j

\* C36 (no producer parked beside a free slot): when the counter is below the
\* ceiling and a thread is blocked in seqwriter_wait_for_memory, some blocked
\* thread has been signalled and is on its way to the slot, so that no further
\* release is needed; also once a call of seqwriter_set_max_active_blocks has
\* returned.
C36_NoneParkedBesideFreeSlot ==
    (/\ setter.pc = "idle"
     /\ configured_max_active_blocks > 0
     /\ nb_blocks_active < configured_max_active_blocks
     /\ \E p \in Producers : prod[p] = "parked") =>
        \E q \in Producers : prod[q] = "woken"

\* C37 (the active-block count is never negative): with every return of
\* seqwriter_wait_for_memory paired with one release, nb_blocks_active >= 0 in
\* every state, for every ceiling, the unlimited setting included, and across
\* calls of seqwriter_set_max_active_blocks.
C37_CountNeverNegative == nb_blocks_active >= 0

\* C38 (the final count is what was written): when the worker has ended with
\* SEQ_OK, frame_count is the number of frames the encode hook took with success,
\* whether the count was known or not at the start and whatever holes were
\* skipped.
C38_FinalCountIsWritten ==
    (WorkerDone /\ failed = SEQ_OK) =>
        /\ frame_count = WrittenSoFar
        /\ frame_count = nb_frames_written

\* C38 witness: a writer started for MaxFrames frames skipped a hole, wrote the
\* other frames and ended with SEQ_OK and a count of MaxFrames - 1
C38_Witness ==
    /\ WorkerDone
    /\ failed = SEQ_OK
    /\ stopper = "none"
    /\ frame_count = MaxFrames - 1
    /\ WrittenSoFar = MaxFrames - 1
    /\ \E j \in 1 .. Len(notifyLog) : submitted[notifyLog[j].id].image = NULL

\* C39 (the registry lookup stays in bounds): in multi-output mode each
\* notification uses a slot of the registry in [0, nb_outputs), which is the slot
\* the sequence already had if it had one, holds the identity of the sequence
\* after the call, and is shared with no other sequence.
C39_LookupInBounds ==
    [][(Notifies /\ nb_outputs > 1) =>
        LET seq == notifyLog'[Len(notifyLog')].seq
            slot == notifyLog'[Len(notifyLog')].slot
        IN  /\ slot \in 0 .. (nb_outputs - 1)
            /\ outputs'[slot].seq = seq
            /\ \A i \in 0 .. (nb_outputs - 1) :
                  /\ outputs[i].seq = seq => i = slot
                  /\ outputs'[i].seq = seq => i = slot
      ]_vars

====
